---------------------------- MODULE Spec2Model ----------------------------
(***************************************************************************)
(* Model of the QGIS processing scripts of scripts_QGIS.                   *)
(*                                                                         *)
(*   ExportarDTMyBandas_csv.py  PostprocReprojectAndCSV_Multi              *)
(*       processAlgorithm: validate, reproject, open, write the CSV        *)
(*   DTM_AltIndex_v0.py         AlterationIndicesFromLandsatIllum          *)
(*   OH_FE_CLAY_INDEX_v0.py     MineralIndicesFromLandsatIllum             *)
(*       _unique, _reproject_extent_rect, processAlgorithm: layers,        *)
(*       extent, and the calls of the processing engine one by one         *)
(*                                                                         *)
(* Spec follows one export, SpecIndex the index algorithms up to their     *)
(* working extent over all the inputs, SpecRun a whole run of an index     *)
(* algorithm over a few inputs, SpecRuns a run of any of the three         *)
(* followed by a second run into the same folder.                          *)
(*                                                                         *)
(* Conventions.  Python's 0-based indices i, j are kept as they are; TLA+  *)
(* sequences are 1-based, so element i of a Python list is seq[i + 1].     *)
(* Real coordinates are held in half units (the stored integer is twice    *)
(* the coordinate), which keeps the (i + 0.5) pixel-centre terms exact.    *)
(* Raster values stand for finite numbers (no NaN).                        *)
(***************************************************************************)
EXTENDS Integers, Sequences, FiniteSets, TLC

(***************************************************************************)
(* Bounds of the model.                                                    *)
(***************************************************************************)
MaxCells == 4      \* a grid has at most MaxCells cells (xsize * ysize)

\* inputs the runs are drawn from
BandCounts == {0, 1, 2}
Values == {0, 1}
Descriptions == {"", "clay"}
GtNorthUp == <<10, 2, 0, 20, 0, -3>>    \* north-up, negative pixel height
GtRotated == <<10, 2, 1, 20, 0, 3>>     \* rotated rows, positive pixel height
GeoTransforms == {GtNorthUp, GtRotated}

None == <<>>
NoDataValues == {None} \cup { <<v>> : v \in Values }

VARIABLES
    pc,            \* position of processAlgorithm (exporter)
    ras_lyr,       \* TRUE iff the input raster layer was supplied
    proj_crs,      \* TRUE iff the project CRS is valid
    ds,            \* the opened reprojected dataset, None before gdal.Open
    j, i,          \* loop indices of the export loop
    csv,           \* lines of the CSV file, <<>> while the file does not exist
    written,       \* for each data line of csv: the cell and the checks made so far
    canceled,      \* the feedback's cancellation flag
    cancelChecks,  \* number of feedback.isCanceled() calls so far
    cancelSeen,    \* TRUE once isCanceled() returned True
    engineCalls,   \* engine operations issued so far
    infos,         \* number of pushInfo messages so far
    progress,      \* last value given to setProgress
    result,        \* the returned mapping, None until the return
    error,         \* message of the raised QgsProcessingException, "" if none
    \* -- index algorithm (AlterationIndicesFromLandsatIllum.processAlgorithm)
    ipc,           \* position of processAlgorithm (index algorithm)
    missing,       \* the raster parameters that resolve to no layer
    target_crs,    \* CRS of the B2 layer
    user_rect,     \* the EXTENT parameter, None if not given
    user_crs,      \* the CRS the EXTENT parameter is taken to be in
    exts,          \* extents of B2, B4, B5, B6, B7, in this order
    common_extent, \* the working extent, None until computed
    ierror,        \* message of the raised exception, "" if none
    algo,          \* which of the two index algorithms runs
    inputs,        \* what the run is called with: the EXTENT parameter and its
                   \* CRS, the CRS of the bands, the extents of B2, B4, B5, B6, B7
    clock,         \* the second time.strftime reads, as an index into Stamps
    names,         \* the paths _unique returned, in the order of the calls
    loc,           \* the path-valued local variables assigned so far
    calls,         \* the processing.run calls issued, in order, with their state
    stage_n,       \* number of calls already issued by the current stage
    iinfos,        \* the pushInfo messages, in order
    iresult,       \* the returned mapping, None until the return
    earlier        \* the paths an earlier run left in the output folder

exportVars == <<pc, ras_lyr, proj_crs, ds, j, i, csv, written, canceled, cancelChecks,
                cancelSeen, engineCalls, infos, progress, result, error>>
pipeVars == <<clock, names, loc, calls, stage_n, iresult, earlier>>
indexVars == <<ipc, missing, target_crs, user_rect, user_crs, exts, common_extent,
               ierror, algo, inputs, iinfos, pipeVars>>
vars == <<exportVars, indexVars>>

(***************************************************************************)
(* Pure parts of the exporter.                                             *)
(***************************************************************************)
Max(a, b) == IF a >= b THEN a ELSE b

\* variant: the placeholder numbered from 0
BandName_ZeroBased(desc, b) == IF desc # "" THEN desc ELSE "band" \o ToString(b - 1)

\* name = rb.GetDescription() or f"band{b}"
BandName(desc, b) == IF desc # "" THEN desc ELSE "band" \o ToString(b)

\* headers = ["x", "y"] + one name per band
Headers(bands) == <<"x", "y">> \o [b \in 1..Len(bands) |-> BandName(bands[b].desc, b)]

\* variant: the row taken at its upper edge instead of its centre
YPos_Edge(gt, jj) == 2 * gt[4] + (2 * jj) * gt[6]

\* ypos = gt[3] + (j + 0.5) * gt[5], in half units
YPos(gt, jj) == 2 * gt[4] + (2 * jj + 1) * gt[6]

\* variant: columns counted from the right edge
XPos_Mirrored(gt, ii, jj) == 2 * gt[1] - (2 * ii + 1) * gt[2] + (2 * jj + 1) * gt[3]

\* xpos = gt[0] + (i + 0.5) * gt[1] + (j + 0.5) * gt[2], in half units
XPos(gt, ii, jj) == 2 * gt[1] + (2 * ii + 1) * gt[2] + (2 * jj + 1) * gt[3]

\* variant: a band without a sentinel counts as no-data
NotNoData_NoneIsNoData(v, nd) == nd # None /\ v # nd[1]

\* variant: the comparison with the sentinel inverted
NotNoData_Inverted(v, nd) == nd = None \/ v = nd[1]

\* the test of one band inside the cell loop: nd is None or v != nd
NotNoData(v, nd) == nd = None \/ v # nd[1]

\* variant: a value equal to its band's sentinel is replaced by 0 - 1
CellVals_Masked(d, ii, jj) ==
    [b \in 1..Len(d.bands) |->
        IF d.bands[b].nd # None /\ d.data[jj + 1][b][ii + 1] = d.bands[b].nd[1]
          THEN 0 - 1 ELSE d.data[jj + 1][b][ii + 1]]

\* vals of cell (ii, jj): float(row_vals[idx][i]) for every band
CellVals(d, ii, jj) == [b \in 1..Len(d.bands) |-> d.data[jj + 1][b][ii + 1]]

\* all_nd after the loop over the bands
AllNd(d, ii, jj) ==
    \A b \in 1..Len(d.bands) : ~NotNoData(d.data[jj + 1][b][ii + 1], d.bands[b].nd)

\* f"{xpos},{ypos}," + ",".join(str(v) for v in vals)
DataLine(d, ii, jj) == <<XPos(d.gt, ii, jj), YPos(d.gt, jj)>> \o CellVals(d, ii, jj)

\* variant: the loop over the rows steps by two
NextRow_Skip(jj) == jj + 2

\* for j in range(ysize): the row after row jj
NextRow(jj) == jj + 1

\* variant: the loop goes on when the flag is set
AfterCheck_NoBreak(c) == "cell"

\* if feedback.isCanceled(): break
AfterCheck(c) == IF c THEN "close" ELSE "cell"

\* int(100 * j / max(1, ysize - 1))
Progress(jj, ysize) == (100 * jj) \div Max(1, ysize - 1)

ReprojPath == "stack" \o "_reproj.tif"
CsvPath == "stack" \o "_reproj_xyz.csv"

\* the band lists of the datasets: on the north-up transform either unnamed
\* bands with every choice of sentinels, or every choice of names with the
\* sentinel 0; on the rotated transform unnamed bands with the sentinel 0
BandLists(g, bc) ==
    IF g = GtNorthUp
      THEN [1..bc -> [desc : {""}, nd : NoDataValues]]
           \cup [1..bc -> [desc : Descriptions, nd : {<<0>>}]]
      ELSE [1..bc -> [desc : {""}, nd : {<<0>>}]]

\* the datasets gdal.Open may return: every grid of at most MaxCells cells
\* over Values, with each of its band lists
Shapes == {s \in (1..MaxCells) \X (1..MaxCells) : s[1] * s[2] <= MaxCells}
Datasets ==
    UNION { [ gt : {g},
              xsize : {s[1]}, ysize : {s[2]},
              bands : BandLists(g, bc),
              data : [1..s[2] -> [1..bc -> [1..s[1] -> Values]]] ]
            : g \in GeoTransforms, s \in Shapes, bc \in BandCounts }

(***************************************************************************)
(* processAlgorithm of the exporter, step by step.                          *)
(***************************************************************************)
\* the exporter is not running
ExportIdle ==
    /\ pc = "idle"
    /\ ras_lyr = FALSE
    /\ proj_crs = FALSE
    /\ ds = None
    /\ j = 0 /\ i = 0
    /\ csv = <<>>
    /\ written = <<>>
    /\ canceled = FALSE
    /\ cancelChecks = 0
    /\ cancelSeen = FALSE
    /\ engineCalls = 0
    /\ infos = 0
    /\ progress = 0
    /\ result = None
    /\ error = ""

\* the index algorithm is not running
IndexIdle ==
    /\ ipc = "idle"
    /\ missing = {}
    /\ target_crs = ""
    /\ user_rect = None
    /\ user_crs = ""
    /\ exts = <<>>
    /\ common_extent = None
    /\ ierror = ""
    /\ algo = ""
    /\ inputs = <<>>
    /\ clock = 1
    /\ names = <<>>
    /\ loc = <<>>
    /\ calls = <<>>
    /\ stage_n = 0
    /\ iinfos = <<>>
    /\ iresult = None
    /\ earlier = {}

InitExport ==
    /\ pc = "start"
    /\ ras_lyr \in BOOLEAN
    /\ proj_crs \in BOOLEAN
    /\ ds = None
    /\ j = 0 /\ i = 0
    /\ csv = <<>>
    /\ written = <<>>
    /\ canceled = FALSE
    /\ cancelChecks = 0
    /\ cancelSeen = FALSE
    /\ engineCalls = 0
    /\ infos = 0
    /\ progress = 0
    /\ result = None
    /\ error = ""
    /\ IndexIdle

Raise(msg) ==
    /\ pc' = "error"
    /\ error' = msg

\* lines 79-110: read the parameters, check the layer and the project CRS
Validate ==
    /\ pc = "start"
    /\ IF ~ras_lyr
         THEN Raise("No se entrego raster de entrada.") /\ UNCHANGED infos
         ELSE IF ~proj_crs
                THEN Raise("El proyecto no tiene un SRC valido.") /\ UNCHANGED infos
                ELSE pc' = "warp" /\ infos' = infos + 1 /\ UNCHANGED error
    /\ UNCHANGED <<ras_lyr, proj_crs, ds, j, i, csv, written, canceled, cancelChecks,
                   cancelSeen, engineCalls, progress, result>>
    /\ UNCHANGED indexVars

\* lines 116-136: processing.run("gdal:warpreproject"), which returns or raises
Warp ==
    /\ pc = "warp"
    /\ engineCalls' = engineCalls + 1
    /\ \/ pc' = "open" /\ infos' = infos + 1 /\ UNCHANGED error
       \/ Raise("gdal:warpreproject") /\ UNCHANGED infos
    /\ UNCHANGED <<ras_lyr, proj_crs, ds, j, i, csv, written, canceled, cancelChecks,
                   cancelSeen, progress, result>>
    /\ UNCHANGED indexVars

\* lines 139-164: gdal.Open, the band list, the headers, the header line
OpenDataset ==
    /\ pc = "open"
    /\ \/ Raise("No se pudo abrir el raster reproyectado.")
          /\ UNCHANGED <<ds, csv, infos>>
       \/ \E d \in Datasets :
            /\ ds' = d
            /\ IF Len(d.bands) = 0
                 THEN Raise("El raster no tiene bandas.") /\ UNCHANGED <<csv, infos>>
                 ELSE /\ pc' = "row"
                      /\ infos' = infos + 1
                      /\ csv' = <<Headers(d.bands)>>
                      /\ UNCHANGED error
    /\ UNCHANGED <<ras_lyr, proj_crs, j, i, written, canceled, cancelChecks,
                   cancelSeen, engineCalls, progress, result>>
    /\ UNCHANGED indexVars

\* variant: the flag is queried before the first row only
RowStart_CheckFirstRowOnly ==
    /\ pc = "row"
    /\ IF j < ds.ysize
         THEN IF j = 0
                THEN /\ cancelChecks' = cancelChecks + 1
                     /\ cancelSeen' = canceled
                     /\ pc' = AfterCheck(canceled)
                     /\ i' = IF canceled THEN i ELSE 0
                ELSE /\ pc' = "cell"
                     /\ i' = 0
                     /\ UNCHANGED <<cancelChecks, cancelSeen>>
         ELSE /\ pc' = "close"
              /\ UNCHANGED <<cancelChecks, cancelSeen, i>>
    /\ UNCHANGED <<ras_lyr, proj_crs, ds, j, csv, written, canceled, engineCalls,
                   infos, progress, result, error>>
    /\ UNCHANGED indexVars

\* lines 166-174: head of the loop over the rows, isCanceled, ReadAsArray
RowStart ==
    /\ pc = "row"
    /\ IF j < ds.ysize
         THEN /\ cancelChecks' = cancelChecks + 1
              /\ cancelSeen' = canceled
              /\ pc' = AfterCheck(canceled)
              /\ i' = IF canceled THEN i ELSE 0
         ELSE /\ pc' = "close"
              /\ UNCHANGED <<cancelChecks, cancelSeen, i>>
    /\ UNCHANGED <<ras_lyr, proj_crs, ds, j, csv, written, canceled, engineCalls,
                   infos, progress, result, error>>
    /\ UNCHANGED indexVars

\* variant: the flag is also queried ahead of every cell
Cell_CheckPerCell ==
    /\ pc = "cell"
    /\ IF i < ds.xsize
         THEN IF canceled
                THEN /\ cancelChecks' = cancelChecks + 1
                     /\ cancelSeen' = TRUE
                     /\ pc' = "close"
                     /\ UNCHANGED <<i, j, csv, written, progress>>
                ELSE /\ IF AllNd(ds, i, j)
                          THEN UNCHANGED <<csv, written>>
                          ELSE /\ csv' = Append(csv, DataLine(ds, i, j))
                               /\ written' = Append(written,
                                                    [j |-> j, i |-> i, checks |-> cancelChecks])
                     /\ i' = i + 1
                     /\ UNCHANGED <<pc, j, progress, cancelChecks, cancelSeen>>
         ELSE /\ progress' = Progress(j, ds.ysize)
              /\ j' = NextRow(j)
              /\ pc' = "row"
              /\ UNCHANGED <<i, csv, written, cancelChecks, cancelSeen>>
    /\ UNCHANGED <<ras_lyr, proj_crs, ds, canceled, engineCalls, infos, result, error>>
    /\ UNCHANGED indexVars

\* lines 178-197: one pass of the loop over the columns, setProgress after the last
Cell ==
    /\ pc = "cell"
    /\ IF i < ds.xsize
         THEN /\ IF AllNd(ds, i, j)
                   THEN UNCHANGED <<csv, written>>
                   ELSE /\ csv' = Append(csv, DataLine(ds, i, j))
                        /\ written' = Append(written,
                                             [j |-> j, i |-> i, checks |-> cancelChecks])
              /\ i' = i + 1
              /\ UNCHANGED <<pc, j, progress>>
         ELSE /\ progress' = Progress(j, ds.ysize)
              /\ j' = NextRow(j)
              /\ pc' = "row"
              /\ UNCHANGED <<i, csv, written>>
    /\ UNCHANGED <<ras_lyr, proj_crs, ds, canceled, cancelChecks, cancelSeen,
                   engineCalls, infos, result, error>>
    /\ UNCHANGED indexVars

\* lines 199-205: the file is closed, the result mapping is returned
Finish ==
    /\ pc = "close"
    /\ pc' = "done"
    /\ infos' = infos + 1
    /\ result' = [REPROJECTED_RASTER |-> ReprojPath, CSV |-> CsvPath]
    /\ UNCHANGED <<ras_lyr, proj_crs, ds, j, i, csv, written, canceled, cancelChecks,
                   cancelSeen, engineCalls, progress, error>>
    /\ UNCHANGED indexVars

\* the user cancels the task while it runs
Cancel ==
    /\ pc \notin {"idle", "done", "error"}
    /\ ~canceled
    /\ canceled' = TRUE
    /\ UNCHANGED <<pc, ras_lyr, proj_crs, ds, j, i, csv, written, cancelChecks,
                   cancelSeen, engineCalls, infos, progress, result, error>>
    /\ UNCHANGED indexVars

NextExport ==
    \/ Validate
    \/ Warp
    \/ OpenDataset
    \/ RowStart
    \/ Cell
    \/ Finish
    \/ Cancel

Spec == InitExport /\ [][NextExport]_vars

(***************************************************************************)
(* The index algorithm: layers, extent.                                    *)
(***************************************************************************)
NumBands == 5          \* B2, B4, B5, B6, B7
Layers == {"B2", "B4", "B5", "B6", "B7", "DTM"}
CRSs == {"EPSG:32719", "EPSG:4326"}
Polar == "EPSG:3031"     \* a polar projection, as a CRS of the bands

Min(a, b) == IF a <= b THEN a ELSE b
SetMin(S) == CHOOSE m \in S : \A n \in S : m <= n
SetMax(S) == CHOOSE m \in S : \A n \in S : m >= n

\* QgsRectangle(xMin, yMin, xMax, yMax)
Rect(x1, y1, x2, y2) == [xmin |-> x1, ymin |-> y1, xmax |-> x2, ymax |-> y2]

\* QgsRectangle(): the null rectangle
NullRect == Rect(0, 0, 0, 0)

\* the rectangles the EXTENT parameter is drawn from (normalised, some of them
\* without width or height) and the extents the band layers are drawn from
Coords == {0, 5, 10}
UserRects ==
    {r \in [xmin : Coords, ymin : Coords, xmax : Coords, ymax : Coords] :
        r.xmin <= r.xmax /\ r.ymin <= r.ymax}
BandRects ==
    {Rect(0, 0, 10, 10), Rect(5, 5, 15, 15), Rect(2, 2, 8, 8), Rect(20, 20, 30, 30)}

\* QgsRectangle.isEmpty()
IsEmpty(r) == r.xmax <= r.xmin \/ r.ymax <= r.ymin

\* QgsRectangle.intersects(other)
Intersects(a, b) ==
    /\ Max(a.xmin, b.xmin) <= Min(a.xmax, b.xmax)
    /\ Max(a.ymin, b.ymin) <= Min(a.ymax, b.ymax)

\* variant: the rectangle spanning both operands
Intersect_Hull(a, b) ==
    IF Intersects(a, b)
      THEN Rect(Min(a.xmin, b.xmin), Min(a.ymin, b.ymin),
                Max(a.xmax, b.xmax), Max(a.ymax, b.ymax))
      ELSE NullRect

\* QgsRectangle.intersect(other)
Intersect(a, b) ==
    IF Intersects(a, b)
      THEN Rect(Max(a.xmin, b.xmin), Max(a.ymin, b.ymin),
                Min(a.xmax, b.xmax), Min(a.ymax, b.ymax))
      ELSE NullRect

\* QgsCoordinateTransform(src, dest).transform(x, y): between the two sample
\* systems a map that is not the identity and keeps no edge axis-parallel.
\* From geographic to polar coordinates x is a longitude, 10 being the full
\* turn and 5 the half turn, and y a latitude: the point lies at the distance
\* 20 - y from the pole, on the line x = 0 for all three longitudes.
Transform(src, dest, x, y) ==
    IF src = dest THEN <<x, y>>
    ELSE IF src = "EPSG:4326" /\ dest = Polar
           THEN <<0, IF x = 5 THEN 20 - y ELSE y - 20>>
    ELSE IF src = "EPSG:4326" THEN <<x - y, x + y>>
    ELSE <<x + y, y - x>>

\* variant: only the lower left and the upper right corner are transformed
ReprojectExtentRect_TwoCorners(rect, src_crs, dest_crs) ==
    IF src_crs = dest_crs
      THEN rect
      ELSE LET corners == { Transform(src_crs, dest_crs, rect.xmin, rect.ymin),
                            Transform(src_crs, dest_crs, rect.xmax, rect.ymax) }
               xs == {q[1] : q \in corners}
               ys == {q[2] : q \in corners}
           IN  Rect(SetMin(xs), SetMin(ys), SetMax(xs), SetMax(ys))

\* _reproject_extent_rect(rect, src_crs, dest_crs, context)
ReprojectExtentRect(rect, src_crs, dest_crs) ==
    IF src_crs = dest_crs
      THEN rect
      ELSE LET corners == { Transform(src_crs, dest_crs, rect.xmin, rect.ymin),
                            Transform(src_crs, dest_crs, rect.xmin, rect.ymax),
                            Transform(src_crs, dest_crs, rect.xmax, rect.ymin),
                            Transform(src_crs, dest_crs, rect.xmax, rect.ymax) }
               xs == {q[1] : q \in corners}
               ys == {q[2] : q \in corners}
           IN  Rect(SetMin(xs), SetMin(ys), SetMax(xs), SetMax(ys))

\* variant: the fold starts afresh from an extent that meets an empty rectangle
RECURSIVE IntersectAll_Restart(_, _)
IntersectAll_Restart(es, n) ==
    IF n = 1 THEN es[1]
    ELSE IF IsEmpty(IntersectAll_Restart(es, n - 1)) THEN es[n]
    ELSE Intersect(IntersectAll_Restart(es, n - 1), es[n])

\* common_extent = exts[0]; for e in exts[1:]: common_extent = common_extent.intersect(e)
RECURSIVE IntersectAll(_, _)
IntersectAll(es, n) ==
    IF n = 1 THEN es[1] ELSE Intersect(IntersectAll(es, n - 1), es[n])

\* user_rect is not None and not user_rect.isEmpty()
UsesUserRect(ur) == ur # None /\ ~IsEmpty(ur)

\* variant: the user rectangle is clipped to the bands' common extent
CommonExtent_ClippedToBands(ur, ucrs, tcrs, es) ==
    IF UsesUserRect(ur)
      THEN Intersect(ReprojectExtentRect(ur, ucrs, tcrs), IntersectAll(es, Len(es)))
      ELSE IntersectAll(es, Len(es))

\* common_extent as the two branches of the extent step compute it
CommonExtent(ur, ucrs, tcrs, es) ==
    IF UsesUserRect(ur)
      THEN ReprojectExtentRect(ur, ucrs, tcrs)
      ELSE IntersectAll(es, Len(es))

\* the two index algorithms: AlterationIndicesFromLandsatIllum (DTM_AltIndex_v0.py)
\* and MineralIndicesFromLandsatIllum (OH_FE_CLAY_INDEX_v0.py)
Algos == {"alteration", "mineral"}

\* band extents without a common area: squares along the diagonal, pairwise
\* disjoint, in five orders; and squares in a row, each touching the next
Square(q) == Rect(20 * q, 20 * q, 20 * q + 10, 20 * q + 10)
DisjointLists == { [b \in 1..NumBands |-> Square((b + s) % NumBands)] : s \in 0..(NumBands - 1) }
TouchingList == [b \in 1..NumBands |-> Rect(10 * (b - 1), 0, 10 * b, 10)]
BandExtLists == [1..NumBands -> BandRects] \cup DisjointLists \cup {TouchingList}

\* the scenario of three overlapping extents, laid over the five bands
ScenarioList ==
    <<Rect(0, 0, 10, 10), Rect(5, 5, 15, 15), Rect(2, 2, 8, 8), Rect(0, 0, 10, 10),
      Rect(5, 5, 15, 15)>>

\* what a run can be called with
AllInputs ==
    [extent : {None} \cup UserRects, extent_crs : CRSs, band_crs : CRSs \cup {Polar},
     band_exts : BandExtLists]

\* band extents of which the first two share no area while the rest overlap,
\* and band extents of which only the last one is apart
ApartFirst ==
    <<Rect(20, 20, 30, 30), Rect(0, 0, 10, 10), Rect(0, 0, 10, 10), Rect(5, 5, 15, 15),
      Rect(2, 2, 8, 8)>>
ApartLast ==
    <<Rect(0, 0, 10, 10), Rect(5, 5, 15, 15), Rect(2, 2, 8, 8), Rect(0, 0, 10, 10),
      Rect(20, 20, 30, 30)>>

\* the calls the whole run is followed for: one or more for each way the
\* extent step can go
FewInputs ==
    [extent : {None, Rect(0, 0, 10, 10), Rect(0, 0, 0, 10)}, extent_crs : {"EPSG:4326"},
     band_crs : {"EPSG:32719", Polar},
     band_exts : {ScenarioList, TouchingList, ApartFirst, ApartLast,
                  [b \in 1..NumBands |-> Square(b - 1)]}]

\* the state at the call of processAlgorithm with one of the inputs In; a run
\* that lacks a layer never looks at the rest of its inputs
IndexStart(In) ==
    /\ ipc = "start"
    /\ algo \in Algos
    /\ \/ missing = {} /\ inputs \in In
       \/ missing \in {{l} : l \in Layers} /\ inputs \in In \cap FewInputs
    /\ target_crs = ""
    /\ user_rect = None
    /\ user_crs = ""
    /\ exts = <<>>
    /\ common_extent = None
    /\ ierror = ""
    /\ clock = 1
    /\ names = <<>>
    /\ loc = <<>>
    /\ calls = <<>>
    /\ stage_n = 0
    /\ iinfos = <<>>
    /\ iresult = None
    /\ earlier = {}
    /\ ExportIdle

InitIndex == IndexStart(AllInputs)

IRaise(msg) ==
    /\ ipc' = "error"
    /\ ierror' = msg

MissingMsg == "Faltan capas raster de entrada."
EmptyIntersectionMsg == "Las capas no tienen una interseccion comun."

\* variant: only the five bands are required
ReadLayers_BandsOnly ==
    /\ ipc = "start"
    /\ IF missing \ {"DTM"} # {}
         THEN IRaise(MissingMsg) /\ UNCHANGED target_crs
         ELSE /\ ipc' = "read_extent"
              /\ target_crs' = inputs.band_crs
              /\ UNCHANGED ierror
    /\ UNCHANGED <<missing, user_rect, user_crs, exts, common_extent>>
    /\ UNCHANGED <<algo, inputs, iinfos, pipeVars>>
    /\ UNCHANGED exportVars

\* lines 120-139: the six layers, the check that all are there, target_crs
ReadLayers ==
    /\ ipc = "start"
    /\ IF missing # {}
         THEN IRaise(MissingMsg) /\ UNCHANGED target_crs
         ELSE /\ ipc' = "read_extent"
              /\ target_crs' = inputs.band_crs
              /\ UNCHANGED ierror
    /\ UNCHANGED <<missing, user_rect, user_crs, exts, common_extent>>
    /\ UNCHANGED <<algo, inputs, iinfos, pipeVars>>
    /\ UNCHANGED exportVars

\* lines 142-147: the EXTENT parameter and the CRS it is taken to be in
ReadExtent ==
    /\ ipc = "read_extent"
    /\ user_rect' = inputs.extent
    /\ user_crs' = inputs.extent_crs
    /\ ipc' = "extent"
    /\ UNCHANGED <<missing, target_crs, exts, common_extent, ierror>>
    /\ UNCHANGED <<algo, inputs, iinfos, pipeVars>>
    /\ UNCHANGED exportVars

\* variant: the band extents are read and folded before the user rectangle is
\* looked at, and an empty fold is an error in either case
ExtentStep_FoldFirst ==
    /\ ipc = "extent"
    /\ exts' = inputs.band_exts
    /\ common_extent' = CommonExtent(user_rect, user_crs, target_crs, exts')
    /\ iinfos' = Append(iinfos, IF UsesUserRect(user_rect) THEN "user extent"
                                                          ELSE "band intersection")
    /\ IF IsEmpty(IntersectAll(exts', Len(exts')))
         THEN IRaise(EmptyIntersectionMsg)
         ELSE ipc' = "dtm" /\ UNCHANGED ierror
    /\ UNCHANGED <<missing, target_crs, user_rect, user_crs>>
    /\ UNCHANGED <<algo, inputs, pipeVars>>
    /\ UNCHANGED exportVars

\* lines 149-171: the working extent, from the user rectangle or from the bands
ExtentStep ==
    /\ ipc = "extent"
    /\ IF UsesUserRect(user_rect)
         THEN /\ iinfos' = Append(iinfos, "user extent")
              /\ common_extent' = CommonExtent(user_rect, user_crs, target_crs,
                                                inputs.band_exts)
              /\ ipc' = "dtm"
              /\ UNCHANGED <<exts, ierror>>
         ELSE /\ iinfos' = Append(iinfos, "band intersection")
              /\ exts' = inputs.band_exts
              /\ common_extent' = CommonExtent(user_rect, user_crs, target_crs, exts')
              /\ IF IsEmpty(common_extent')
                   THEN IRaise(EmptyIntersectionMsg)
                   ELSE ipc' = "dtm" /\ UNCHANGED ierror
    /\ UNCHANGED <<missing, target_crs, user_rect, user_crs>>
    /\ UNCHANGED <<algo, inputs, pipeVars>>
    /\ UNCHANGED exportVars

NextIndex ==
    \/ ReadLayers
    \/ ReadExtent
    \/ ExtentStep

SpecIndex == InitIndex /\ [][NextIndex]_vars

(***************************************************************************)
(* The index algorithms: the engine pipeline.                              *)
(***************************************************************************)
\* what time.strftime("%Y%m%d_%H%M%S") returns in consecutive seconds
Stamps == <<"20240101_000000", "20240101_000001">>

\* variant: the name carries the time stamp only
Unique_StampOnly(base, t) == "out_" \o Stamps[t] \o ".tif"

\* _unique(out_folder, base) when the clock reads second t
Unique(base, t) == base \o "_" \o Stamps[t] \o ".tif"

\* lyr.source() of an input layer
Source(l) == l \o ".tif"

EngineMsg == "processing.run failed"

\* the last call has been issued and has not returned
Running == calls # <<>> /\ calls[Len(calls)].st = "running"

\* the calls that returned normally
Completed == {c \in 1..Len(calls) : calls[c].st = "ok"}

\* variant: the call is issued while the previous one may still be running
Run_NoWait(alg, ins, ext, base, var) ==
    /\ names' = Append(names, Unique(base, clock))
    /\ calls' = Append(calls, [alg |-> alg, inputs |-> ins, extent |-> ext, base |-> base,
                               output |-> Unique(base, clock), st |-> "running"])
    /\ loc' = (var :> Unique(base, clock)) @@ loc

\* outp = self._unique(out_folder, base); processing.run(alg, {...}); var = outp
\* up to the point where the engine has the call
Run(alg, ins, ext, base, var) ==
    /\ ~Running
    /\ names' = Append(names, Unique(base, clock))
    /\ calls' = Append(calls, [alg |-> alg, inputs |-> ins, extent |-> ext, base |-> base,
                               output |-> Unique(base, clock), st |-> "running"])
    /\ loc' = (var :> Unique(base, clock)) @@ loc

\* variant: a failed call is left behind and the run goes on
EngineReturn_Tolerant ==
    /\ Running
    /\ \E st \in {"ok", "failed"} : calls' = [calls EXCEPT ![Len(calls)].st = st]
    /\ UNCHANGED <<ipc, ierror>>
    /\ UNCHANGED <<missing, target_crs, user_rect, user_crs, exts, common_extent>>
    /\ UNCHANGED <<algo, inputs, iinfos, clock, names, loc, stage_n, iresult, earlier>>
    /\ UNCHANGED exportVars

\* processing.run returns, or raises and ends processAlgorithm
EngineReturn ==
    /\ Running
    /\ \/ /\ calls' = [calls EXCEPT ![Len(calls)].st = "ok"]
          /\ UNCHANGED <<ipc, ierror>>
       \/ /\ calls' = [calls EXCEPT ![Len(calls)].st = "failed"]
          /\ IRaise(EngineMsg)
    /\ UNCHANGED <<missing, target_crs, user_rect, user_crs, exts, common_extent>>
    /\ UNCHANGED <<algo, inputs, iinfos, clock, names, loc, stage_n, iresult, earlier>>
    /\ UNCHANGED exportVars

\* what no step of the pipeline changes
PipeFrame ==
    /\ UNCHANGED <<missing, target_crs, user_rect, user_crs, exts, common_extent>>
    /\ UNCHANGED <<algo, inputs, ierror, clock, iresult, earlier>>
    /\ UNCHANGED exportVars

\* step 3: the DTM is reprojected if its CRS is not the one of the bands
DtmStep ==
    /\ ipc = "dtm"
    /\ \E dtm_crs \in CRSs :
         IF dtm_crs # target_crs
           THEN /\ iinfos' = Append(iinfos, "DTM en CRS distinto")
                /\ Run("gdal:warpreproject", <<Source("DTM")>>, None, "dtm_reproj",
                       "dtm_src")
           ELSE /\ loc' = ("dtm_src" :> Source("DTM")) @@ loc
                /\ UNCHANGED <<iinfos, names, calls>>
    /\ ipc' = "clip"
    /\ UNCHANGED stage_n
    /\ PipeFrame

\* the six clips: source and name, in the order of the calls
ClipJobs ==
    << <<"B2", "b2_clip">>, <<"B4", "b4_clip">>, <<"B5", "b5_clip">>,
       <<"B6", "b6_clip">>, <<"B7", "b7_clip">>, <<"DTM", "dtm_clip">> >>

\* one more call of a stage of m calls has been issued
Advance(m, next) ==
    IF stage_n + 1 = m THEN ipc' = next /\ stage_n' = 0
                       ELSE stage_n' = stage_n + 1 /\ UNCHANGED ipc

\* pushInfo ahead of the first call of a stage
InfoFirst(msg) == iinfos' = IF stage_n = 0 THEN Append(iinfos, msg) ELSE iinfos

\* step 4: clip_to_extent for the five bands and the DTM
Clip ==
    /\ ipc = "clip"
    /\ InfoFirst("Recortando capas")
    /\ LET job == ClipJobs[stage_n + 1]
           src == IF job[1] = "DTM" THEN loc["dtm_src"] ELSE Source(job[1])
       IN  Run("gdal:cliprasterbyextent", <<src>>, common_extent, job[2], job[2])
    /\ Advance(Len(ClipJobs), "slope")
    /\ PipeFrame

\* step 5: slope
Slope ==
    /\ ipc = "slope"
    /\ iinfos' = Append(iinfos, "Calculando pendiente y aspecto")
    /\ Run("gdal:slope", <<loc["dtm_clip"]>>, None, "slope", "slope_path")
    /\ ipc' = "aspect"
    /\ UNCHANGED stage_n
    /\ PipeFrame

\* step 5: aspect
Aspect ==
    /\ ipc = "aspect"
    /\ Run("gdal:aspect", <<loc["dtm_clip"]>>, None, "aspect", "aspect_path")
    /\ ipc' = "illum"
    /\ UNCHANGED <<stage_n, iinfos>>
    /\ PipeFrame

\* step 6: illumination from slope and aspect
Illumination ==
    /\ ipc = "illum"
    /\ iinfos' = Append(iinfos, "Calculando iluminacion")
    /\ Run("gdal:rastercalculator", <<loc["slope_path"], loc["aspect_path"]>>, None,
           "illumination", "illum_path")
    /\ ipc' = "align"
    /\ UNCHANGED stage_n
    /\ PipeFrame

\* step 7: the illumination warped onto the grid and the extent of the bands
AlignIllumination ==
    /\ ipc = "align"
    /\ iinfos' = Append(iinfos, "Alineando iluminacion")
    /\ Run("gdal:warpreproject", <<loc["illum_path"]>>, common_extent,
           "illumination_aligned", "illum_aligned")
    /\ ipc' = "corr"
    /\ UNCHANGED stage_n
    /\ PipeFrame

\* the five corrections: clipped band and name
CorrJobs ==
    << <<"b2_clip", "b2_corr">>, <<"b4_clip", "b4_corr">>, <<"b5_clip", "b5_corr">>,
       <<"b6_clip", "b6_corr">>, <<"b7_clip", "b7_corr">> >>

\* illum_correct for the five bands
IllumCorrect ==
    /\ ipc = "corr"
    /\ InfoFirst("Corrigiendo bandas por iluminacion")
    /\ LET job == CorrJobs[stage_n + 1]
       IN  Run("gdal:rastercalculator", <<loc[job[1]], loc["illum_aligned"]>>, None,
               job[2], job[2])
    /\ Advance(Len(CorrJobs), "ndvi")
    /\ PipeFrame

\* step 8: NDVI
Ndvi ==
    /\ ipc = "ndvi"
    /\ iinfos' = IF algo = "mineral" THEN Append(iinfos, "Calculando NDVI") ELSE iinfos
    /\ Run("gdal:rastercalculator", <<loc["b5_corr"], loc["b4_corr"]>>, None, "ndvi",
           "ndvi_path")
    /\ ipc' = "index"
    /\ UNCHANGED stage_n
    /\ PipeFrame

\* the indices of each algorithm: name, first and second input, key of the result
IndexDefs ==
    IF algo = "alteration"
      THEN << <<"fe_index", "b4_corr", "b2_corr", "FE_INDEX">>,
              <<"clay_index", "b6_corr", "b7_corr", "CLAY_INDEX">>,
              <<"oh_index", "b6_corr", "b5_corr", "OH_INDEX">>,
              <<"propylitic_index", "b5_corr", "b4_corr", "PROPYLITIC_INDEX">>,
              <<"silica_index", "b6_corr", "b2_corr", "SILICA_INDEX">>,
              <<"gossan_index", "b4_corr", "b6_corr", "GOSSAN_INDEX">> >>
      ELSE << <<"fe_index", "b4_corr", "b2_corr", "FE_INDEX">>,
              <<"clay_index", "b6_corr", "b7_corr", "CLAY_INDEX">>,
              <<"oh_index", "b6_corr", "b5_corr", "OH_INDEX">> >>

\* step 9: the indices, one gdal_calc_2in each
Index ==
    /\ ipc = "index"
    /\ LET def == IndexDefs[stage_n + 1]
       IN  /\ iinfos' = IF algo = "alteration" THEN Append(iinfos, "Calculando " \o def[1])
                        ELSE IF stage_n = 0 THEN Append(iinfos, "Calculando indices")
                        ELSE iinfos
           /\ Run("gdal:rastercalculator", <<loc[def[2]], loc[def[3]]>>, None, def[1],
                  def[1])
    /\ Advance(Len(IndexDefs), IF algo = "alteration" THEN "merge" ELSE "mask")
    /\ PipeFrame

group_size == 3

\* the paths of the indices, in the order of index_defs
IndexPaths == [d \in 1..Len(IndexDefs) |-> loc[IndexDefs[d][1]]]

\* the number of chunks of range(0, len(index_paths), group_size)
NumGroups == (Len(IndexDefs) + group_size - 1) \div group_size

\* index_paths[i : i + group_size] for the chunk g, counted from 1
Chunk(g) ==
    SubSeq(IndexPaths, group_size * (g - 1) + 1, Min(group_size * g, Len(IndexDefs)))

\* step 10 (alteration): the indices merged three by three
Merge ==
    /\ ipc = "merge"
    /\ InfoFirst("Empaquetando indices")
    /\ Run("gdal:merge", Chunk(stage_n + 1), None,
           "alteraciones_" \o ToString(stage_n + 1),
           "alteraciones_" \o ToString(stage_n + 1))
    /\ Advance(NumGroups, "full")
    /\ PipeFrame

\* step 11 (alteration): the clipped DTM and all the indices in one raster
FullStack ==
    /\ ipc = "full"
    /\ iinfos' = Append(iinfos, "Creando raster unico")
    /\ Run("gdal:merge", <<loc["dtm_clip"]>> \o IndexPaths, None,
           "dtm_alteraciones_full", "full_stack_path")
    /\ ipc' = "return"
    /\ UNCHANGED stage_n
    /\ PipeFrame

\* step 10 (mineral): mask_with_ndvi for the three indices
Mask ==
    /\ ipc = "mask"
    /\ InfoFirst("Enmascarando vegetacion")
    /\ LET def == IndexDefs[stage_n + 1]
       IN  Run("gdal:rastercalculator", <<loc[def[1]], loc["ndvi_path"]>>, None,
               def[1] \o "_masked", def[1] \o "_masked")
    /\ Advance(Len(IndexDefs), "return")
    /\ PipeFrame

\* the mapping processAlgorithm returns, as the pairs of key and path in the
\* order in which the code enters them
OutDict ==
    IF algo = "alteration"
      THEN << <<"NDVI", loc["ndvi_path"]>>, <<"ILLUMINATION", loc["illum_aligned"]>>,
              <<"DTM_CLIP", loc["dtm_clip"]>>,
              <<"DTM_ALTERACIONES_FULL", loc["full_stack_path"]>> >>
           \o [d \in 1..Len(IndexDefs) |-> <<IndexDefs[d][4], loc[IndexDefs[d][1]]>>]
           \o [g \in 1..NumGroups |->
                 <<"ALTERACIONES_" \o ToString(g), loc["alteraciones_" \o ToString(g)]>>]
      ELSE << <<"NDVI", loc["ndvi_path"]>> >>
           \o [d \in 1..Len(IndexDefs) |-> <<IndexDefs[d][4], loc[IndexDefs[d][1]]>>]
           \o [d \in 1..Len(IndexDefs) |->
                 <<IndexDefs[d][4] \o "_MASKED", loc[IndexDefs[d][1] \o "_masked"]>>]
           \o << <<"ILLUMINATION", loc["illum_aligned"]>> >>

\* the last pushInfo and the return
Return ==
    /\ ipc = "return"
    /\ ~Running
    /\ iinfos' = Append(iinfos, "Listo")
    /\ iresult' = OutDict
    /\ ipc' = "done"
    /\ UNCHANGED <<missing, target_crs, user_rect, user_crs, exts, common_extent>>
    /\ UNCHANGED <<algo, inputs, ierror, clock, names, loc, calls, stage_n, earlier>>
    /\ UNCHANGED exportVars

\* a second passes while the algorithm runs
Tick ==
    /\ ipc \notin {"idle", "done", "error"}
    /\ clock < Len(Stamps)
    /\ clock' = clock + 1
    /\ UNCHANGED <<ipc, missing, target_crs, user_rect, user_crs, exts, common_extent>>
    /\ UNCHANGED <<algo, inputs, ierror, iinfos, names, loc, calls, stage_n, iresult,
                   earlier>>
    /\ UNCHANGED exportVars

InitRun == IndexStart(FewInputs)

NextRun ==
    \/ ReadLayers
    \/ ReadExtent
    \/ ExtentStep
    \/ DtmStep
    \/ Clip
    \/ Slope
    \/ Aspect
    \/ Illumination
    \/ AlignIllumination
    \/ IllumCorrect
    \/ Ndvi
    \/ Index
    \/ Merge
    \/ FullStack
    \/ Mask
    \/ Return
    \/ EngineReturn
    \/ Tick

SpecRun == InitRun /\ [][NextRun]_vars

(***************************************************************************)
(* A second run into the same output folder.                               *)
(***************************************************************************)
\* the call that is run twice: no user rectangle, the bands of the scenario
RerunInputs ==
    [extent : {None}, extent_crs : {"EPSG:4326"}, band_crs : {"EPSG:32719"},
     band_exts : {ScenarioList}]

\* the index algorithm has returned and is called again with the same
\* parameters; the files of the first run stay in the output folder
Rerun ==
    /\ ipc = "done"
    /\ earlier = {}
    /\ earlier' = {names[k] : k \in 1..Len(names)}
    /\ ipc' = "start"
    /\ target_crs' = ""
    /\ user_rect' = None
    /\ user_crs' = ""
    /\ exts' = <<>>
    /\ common_extent' = None
    /\ names' = <<>>
    /\ loc' = <<>>
    /\ calls' = <<>>
    /\ iinfos' = <<>>
    /\ iresult' = None
    /\ UNCHANGED <<missing, ierror, algo, inputs, clock, stage_n>>
    /\ UNCHANGED exportVars

\* the exporter has returned and is called again on the same raster; the two
\* files of the first run stay in the output folder
RerunExport ==
    /\ pc = "done"
    /\ earlier = {}
    /\ earlier' = {result.REPROJECTED_RASTER, result.CSV}
    /\ pc' = "start"
    /\ ds' = None
    /\ j' = 0 /\ i' = 0
    /\ csv' = <<>>
    /\ written' = <<>>
    /\ canceled' = FALSE
    /\ cancelChecks' = 0
    /\ cancelSeen' = FALSE
    /\ engineCalls' = 0
    /\ infos' = 0
    /\ progress' = 0
    /\ result' = None
    /\ UNCHANGED <<ras_lyr, proj_crs, error>>
    /\ UNCHANGED <<ipc, missing, target_crs, user_rect, user_crs, exts, common_extent>>
    /\ UNCHANGED <<algo, inputs, ierror, iinfos, clock, names, loc, calls, stage_n, iresult>>

InitRuns == InitExport \/ IndexStart(RerunInputs)

NextRuns ==
    \/ NextExport
    \/ NextRun
    \/ Rerun
    \/ RerunExport

SpecRuns == InitRuns /\ [][NextRuns]_vars

(***************************************************************************)
(* Properties of the exporter.                                             *)
(***************************************************************************)
\* the dataset is open and the export loop has been entered
Exporting == pc \in {"row", "cell", "close", "done"}

\* the loop over the columns has finished with cell (ii, jj)
Visited(ii, jj) == jj < j \/ (pc = "cell" /\ jj = j /\ ii < i)

\* all the cells of the grid
Cells == (0..(ds.xsize - 1)) \X (0..(ds.ysize - 1))

\* the data lines (as indices of written) that belong to cell (ii, jj)
LinesOf(ii, jj) == {k \in 1..Len(written) : written[k].i = ii /\ written[k].j = jj}

BandIdx == 1..Len(ds.bands)
ValueAt(b, ii, jj) == ds.data[jj + 1][b][ii + 1]
Declares(b) == ds.bands[b].nd # None
Sentinel(b) == ds.bands[b].nd[1]

\* the export ran over the whole grid and returned
Complete == pc = "done" /\ ~cancelSeen

\* C1 as stated: a visited cell has no data line exactly when every band either
\* declares no sentinel or holds its sentinel at the cell.
C1_SkipAsStated ==
    Exporting =>
        \A c \in Cells : Visited(c[1], c[2]) =>
            ( LinesOf(c[1], c[2]) = {}
              <=> \A b \in BandIdx :
                     ~Declares(b) \/ ValueAt(b, c[1], c[2]) = Sentinel(b) )

\* C1 amended: a visited cell has no data line exactly when every band declares
\* a sentinel and holds it at the cell; a band without a sentinel forces the line.
C1_SkipRule ==
    Exporting =>
        \A c \in Cells : Visited(c[1], c[2]) =>
            ( LinesOf(c[1], c[2]) = {}
              <=> \A b \in BandIdx :
                     Declares(b) /\ ValueAt(b, c[1], c[2]) = Sentinel(b) )

\* a finished export wrote a cell in which one band has no sentinel and every
\* other band holds its sentinel
C1_Witness ==
    /\ Complete
    /\ \E c \in Cells :
         /\ LinesOf(c[1], c[2]) # {}
         /\ \E b \in BandIdx : ~Declares(b)
         /\ \E b \in BandIdx : Declares(b)
         /\ \A b \in BandIdx : Declares(b) => ValueAt(b, c[1], c[2]) = Sentinel(b)

\* C2: every visited cell at which some band differs from its declared sentinel
\* has exactly one data line: x, y, then the raw value of every band in band
\* order; a complete export has visited every cell.
C2_DataLine ==
    Exporting =>
        /\ Complete => \A c \in Cells : Visited(c[1], c[2])
        /\ \A c \in Cells :
             ( /\ Visited(c[1], c[2])
               /\ \E b \in BandIdx : Declares(b) /\ ValueAt(b, c[1], c[2]) # Sentinel(b) )
             => /\ Cardinality(LinesOf(c[1], c[2])) = 1
                /\ \A k \in LinesOf(c[1], c[2]) :
                     /\ Len(csv[k + 1]) = 2 + Len(ds.bands)
                     /\ csv[k + 1][1] = XPos(ds.gt, c[1], c[2])
                     /\ csv[k + 1][2] = YPos(ds.gt, c[2])
                     /\ \A b \in BandIdx : csv[k + 1][2 + b] = ValueAt(b, c[1], c[2])

\* a finished export wrote a cell in which one band differs from its sentinel
\* and another band holds its own sentinel
C2_Witness ==
    /\ Complete
    /\ \E c \in Cells :
         /\ LinesOf(c[1], c[2]) # {}
         /\ \E b \in BandIdx : Declares(b) /\ ValueAt(b, c[1], c[2]) # Sentinel(b)
         /\ \E b \in BandIdx : Declares(b) /\ ValueAt(b, c[1], c[2]) = Sentinel(b)

\* every band declares the same sentinel V and every cell of every band is V
AllSentinel ==
    \E V \in Values :
        /\ \A b \in BandIdx : ds.bands[b].nd = <<V>>
        /\ \A c \in Cells : \A b \in BandIdx : ValueAt(b, c[1], c[2]) = V

\* C3: a complete export of a grid whose bands all declare the same sentinel V
\* and whose cells all hold V writes the header line only.
C3_AllNoDataGrid ==
    (Complete /\ AllSentinel) => (Len(csv) = 1 /\ written = <<>> /\ j = ds.ysize)

\* a complete export of such a grid with two bands and more than one cell
C3_Witness ==
    /\ Complete
    /\ AllSentinel
    /\ Len(ds.bands) = 2
    /\ ds.xsize * ds.ysize > 1

\* C4: data lines come in row-major order of their cells, so no cell has two
\* lines; a complete export holds every cell that is not skipped exactly once.
C4_RowMajor ==
    Exporting =>
        /\ \A k, l \in 1..Len(written) : k < l =>
              \/ written[k].j < written[l].j
              \/ written[k].j = written[l].j /\ written[k].i < written[l].i
        /\ \A k \in 1..Len(written) :
              written[k].i < ds.xsize /\ written[k].j < ds.ysize
        /\ Complete =>
              \A c \in Cells :
                 IF \A b \in BandIdx :
                      Declares(b) /\ ValueAt(b, c[1], c[2]) = Sentinel(b)
                   THEN LinesOf(c[1], c[2]) = {}
                   ELSE Cardinality(LinesOf(c[1], c[2])) = 1

\* a complete export of a grid of two rows and two columns wrote all four cells
C4_Witness ==
    /\ Complete
    /\ ds.xsize = 2 /\ ds.ysize = 2
    /\ Len(written) = 4

\* C5: the line of cell (i, j) holds x = gt0 + (i + 0.5) gt1 + (j + 0.5) gt2 and
\* y = gt3 + (j + 0.5) gt5 (both doubled here); y is the same in a whole row.
C5_Coordinates ==
    Exporting =>
        /\ \A k \in 1..Len(written) :
             /\ csv[k + 1][1] = 2 * ds.gt[1] + (2 * written[k].i + 1) * ds.gt[2]
                                  + (2 * written[k].j + 1) * ds.gt[3]
             /\ csv[k + 1][2] = 2 * ds.gt[4] + (2 * written[k].j + 1) * ds.gt[6]
        /\ \A k, l \in 1..Len(written) :
             written[k].j = written[l].j => csv[k + 1][2] = csv[l + 1][2]

\* a line was written for a cell off the first row and column of a rotated grid
C5_Witness ==
    /\ Exporting
    /\ ds.gt[3] # 0
    /\ \E k \in 1..Len(written) : written[k].i > 0 /\ written[k].j > 0

\* a grid without rotation whose columns run east and whose rows run south
NorthUp == ds.gt[3] = 0 /\ ds.gt[5] = 0 /\ ds.gt[2] > 0 /\ ds.gt[6] < 0

\* C6: on a north-up grid with negative pixel height y never increases along
\* the output and decreases from one grid row to the next, and x increases
\* strictly between lines of one grid row.
C6_Monotone ==
    (Exporting /\ NorthUp) =>
        \A k, l \in 1..Len(written) : k < l =>
            /\ csv[l + 1][2] <= csv[k + 1][2]
            /\ written[k].j < written[l].j => csv[l + 1][2] < csv[k + 1][2]
            /\ written[k].j = written[l].j => csv[k + 1][1] < csv[l + 1][1]

\* a north-up grid of two rows and two columns was written in full
C6_Witness ==
    /\ Complete
    /\ NorthUp
    /\ ds.xsize = 2 /\ ds.ysize = 2
    /\ Len(written) = 4

\* the placeholder of band b (1-based)
Placeholder(b) == "band" \o ToString(b)

\* C7: once the CSV exists its first line is the header x, y, then per band the
\* declared name or else the placeholder; every later line is a data line; the
\* header is there before any data line, and at the return of any run.
C7_Header ==
    /\ written # <<>> => csv # <<>>
    /\ pc \in {"row", "cell", "close", "done"} => csv # <<>>
    /\ csv # <<>> =>
         /\ Len(csv) = 1 + Len(written)
         /\ Len(csv[1]) = 2 + Len(ds.bands)
         /\ csv[1][1] = "x" /\ csv[1][2] = "y"
         /\ \A b \in BandIdx :
              csv[1][2 + b] = IF ds.bands[b].desc # "" THEN ds.bands[b].desc
                                                       ELSE Placeholder(b)
         /\ (Len(ds.bands) = 1 /\ ds.bands[1].desc = "") => csv[1] = <<"x", "y", "band1">>

\* a cancelled run without data lines returned, its CSV being the header of an
\* unnamed second band after a named first one
C7_Witness ==
    /\ pc = "done" /\ cancelSeen
    /\ csv = << <<"x", "y", "clay", "band2">> >>

\* C8 as stated: the flag is queried before the first data line and between
\* any two consecutive data lines.
C8_CheckPerLine ==
    /\ written # <<>> => written[1].checks >= 1
    /\ \A k \in 1..(Len(written) - 1) : written[k + 1].checks > written[k].checks

\* C8 amended: the flag is queried once at the head of every grid row: before
\* the first data line, and between two data lines of different grid rows.
C8_CheckPerGridRow ==
    /\ \A k \in 1..Len(written) : written[k].checks = written[k].j + 1
    /\ written # <<>> => written[1].checks >= 1
    /\ \A k, l \in 1..Len(written) :
         (k < l /\ written[k].j # written[l].j) => written[l].checks > written[k].checks

\* data lines of two different grid rows were written
C8_Witness ==
    \E k, l \in 1..Len(written) : written[k].j # written[l].j

\* C9: from the moment the loop sees the flag set no line is added, nothing is
\* raised, the run closes the file and returns the normal mapping; the CSV holds
\* the header and the lines written so far.
C9_CancelStops ==
    [][ cancelSeen =>
          /\ csv' = csv /\ written' = written
          /\ Len(csv) >= 1
          /\ error' = ""
          /\ pc' \in {"close", "done"}
          /\ pc' = "done" =>
               result' = [REPROJECTED_RASTER |-> ReprojPath, CSV |-> CsvPath] ]_vars

\* a run cancelled after its first grid row returned with header and lines
C9_Witness ==
    /\ pc = "done" /\ cancelSeen
    /\ j >= 1 /\ j < ds.ysize
    /\ Len(csv) >= 2
    /\ result = [REPROJECTED_RASTER |-> ReprojPath, CSV |-> CsvPath]

\* the cells of the grid rows 0..k-1 that an export writes a line for
RowsCells(k) ==
    {c \in Cells : c[2] < k /\ \E b \in BandIdx :
                                  ~Declares(b) \/ ValueAt(b, c[1], c[2]) # Sentinel(b)}

\* the line an export writes for the cell c
LineOfCell(c) ==
    <<2 * ds.gt[1] + (2 * c[1] + 1) * ds.gt[2] + (2 * c[2] + 1) * ds.gt[3],
      2 * ds.gt[4] + (2 * c[2] + 1) * ds.gt[6]>>
    \o [b \in BandIdx |-> ValueAt(b, c[1], c[2])]

\* C21: the flag is queried at the head of a grid row only, once per row; at
\* every row boundary, and so when the cancellation is seen ahead of row k or
\* the export has returned, the data lines are those of the whole grid rows
\* before it, in the order and with the content of an uncancelled export; a
\* row that has been entered is carried to its end whatever the flag is.
C21_WholeRows ==
    /\ []( pc \in {"row", "close", "done"} =>
             /\ {<<written[k].i, written[k].j>> : k \in 1..Len(written)} = RowsCells(j)
             /\ Len(written) = Cardinality(RowsCells(j))
             /\ \A k \in 1..Len(written) :
                   csv[k + 1] = LineOfCell(<<written[k].i, written[k].j>>)
             /\ \A k, l \in 1..Len(written) : k < l =>
                   \/ written[k].j < written[l].j
                   \/ written[k].j = written[l].j /\ written[k].i < written[l].i
             /\ cancelChecks = j + (IF cancelSeen THEN 1 ELSE 0)
             /\ ~cancelSeen /\ pc # "row" => j = ds.ysize )
    /\ [][ /\ cancelChecks' # cancelChecks =>
                 pc = "row" /\ cancelChecks' = cancelChecks + 1
           /\ cancelSeen' # cancelSeen => pc = "row" /\ canceled
           /\ pc = "cell" => pc' \in {"cell", "row"} /\ j' \in {j, j + 1}
           /\ (pc = "cell" /\ pc' = "row") => i = ds.xsize ]_vars

\* the flag was set while the first of two grid rows was being written, and
\* the row has been written to its last cell
C21_Witness ==
    /\ pc = "cell"
    /\ canceled /\ ~cancelSeen
    /\ j = 0 /\ ds.ysize = 2
    /\ i = ds.xsize /\ ds.xsize = 2
    /\ Len(written) = 2

(***************************************************************************)
(* Properties of the extent step.                                          *)
(***************************************************************************)
\* the extent step has run
ExtentDone == common_extent # None

\* C10 as stated: with the user rectangle in the target CRS the extent step
\* yields that rectangle, whatever the rectangle.
C10_IdentityAnyRect ==
    (ExtentDone /\ user_rect # None /\ user_crs = target_crs)
        => common_extent = user_rect

\* C10 amended: with a non-empty user rectangle in the target CRS the extent
\* step yields that rectangle, its four bounds unchanged, and raises nothing.
C10_IdentityNonEmpty ==
    (ExtentDone /\ user_rect # None /\ ~IsEmpty(user_rect) /\ user_crs = target_crs)
        => /\ common_extent.xmin = user_rect.xmin
           /\ common_extent.ymin = user_rect.ymin
           /\ common_extent.xmax = user_rect.xmax
           /\ common_extent.ymax = user_rect.ymax
           /\ ipc = "dtm" /\ ierror = ""

\* the extent step ran on the rectangle (0, 0, 10, 10) given in the target CRS
C10_Witness ==
    /\ ExtentDone
    /\ user_rect = Rect(0, 0, 10, 10)
    /\ user_crs = target_crs
    /\ common_extent = Rect(0, 0, 10, 10)

\* C11: with a non-empty user rectangle the working extent is that rectangle,
\* reprojected to the CRS of the bands; the band extents are not read, and no
\* empty-intersection error is raised, whatever the band extents are.
C11_UserRectWins ==
    (ExtentDone /\ UsesUserRect(user_rect)) =>
        /\ common_extent = ReprojectExtentRect(user_rect, user_crs, target_crs)
        /\ exts = <<>>
        /\ ierror # EmptyIntersectionMsg
        /\ ipc # "error"

\* the extent step took a user rectangle given in another CRS while the band
\* extents are pairwise disjoint, and disjoint from the reprojected rectangle
C11_Witness ==
    /\ ExtentDone
    /\ user_rect = Rect(0, 0, 10, 10)
    /\ user_crs # target_crs
    /\ inputs.band_exts \in DisjointLists
    /\ \A b \in 2..NumBands : ~Intersects(common_extent, inputs.band_exts[b])
    /\ \A b \in 2..NumBands : ~Intersects(user_rect, inputs.band_exts[b])
    /\ ipc = "dtm"

\* the four corners of the user rectangle, transformed one by one
Corners ==
    { Transform(user_crs, target_crs, user_rect.xmin, user_rect.ymin),
      Transform(user_crs, target_crs, user_rect.xmin, user_rect.ymax),
      Transform(user_crs, target_crs, user_rect.xmax, user_rect.ymin),
      Transform(user_crs, target_crs, user_rect.xmax, user_rect.ymax) }

\* C12: a user rectangle in another CRS becomes the bounding box of its four
\* transformed corners: every corner lies inside, and each bound of the box is
\* the x or the y of a corner.
C12_FourCornerBox ==
    (ExtentDone /\ UsesUserRect(user_rect) /\ user_crs # target_crs) =>
        /\ \A q \in Corners :
              /\ common_extent.xmin <= q[1] /\ q[1] <= common_extent.xmax
              /\ common_extent.ymin <= q[2] /\ q[2] <= common_extent.ymax
        /\ \E q \in Corners : q[1] = common_extent.xmin
        /\ \E q \in Corners : q[1] = common_extent.xmax
        /\ \E q \in Corners : q[2] = common_extent.ymin
        /\ \E q \in Corners : q[2] = common_extent.ymax

\* the rectangle (0, 0, 10, 10) was taken to the other CRS, where two of its
\* bounds come from the corners (xMin, yMax) and (xMax, yMin)
C12_Witness ==
    /\ ExtentDone
    /\ user_rect = Rect(0, 0, 10, 10)
    /\ user_crs = "EPSG:4326" /\ target_crs = "EPSG:32719"
    /\ common_extent = Rect(-10, 0, 10, 20)

\* (max of the xMin, max of the yMin, min of the xMax, min of the yMax)
BoundsMeet(es) ==
    Rect(SetMax({es[b].xmin : b \in DOMAIN es}), SetMax({es[b].ymin : b \in DOMAIN es}),
         SetMin({es[b].xmax : b \in DOMAIN es}), SetMin({es[b].ymax : b \in DOMAIN es}))

\* the band extents share an area
Overlapping(es) ==
    /\ BoundsMeet(es).xmin < BoundsMeet(es).xmax
    /\ BoundsMeet(es).ymin < BoundsMeet(es).ymax

\* C13: without a usable user rectangle, band extents that share an area give
\* (max xMin, max yMin, min xMax, min yMax) as the working extent and no error;
\* (0,0,10,10), (5,5,15,15), (2,2,8,8) give (5,5,8,8).
C13_Intersection ==
    (ExtentDone /\ ~UsesUserRect(user_rect) /\ Overlapping(inputs.band_exts)) =>
        /\ common_extent = BoundsMeet(inputs.band_exts)
        /\ ipc # "error" /\ ierror = ""
        /\ {inputs.band_exts[b] : b \in 1..NumBands}
              = {Rect(0, 0, 10, 10), Rect(5, 5, 15, 15), Rect(2, 2, 8, 8)}
             => common_extent = Rect(5, 5, 8, 8)

\* the scenario ran without a user rectangle
C13_Witness ==
    /\ ExtentDone
    /\ user_rect = None
    /\ inputs.band_exts = ScenarioList
    /\ common_extent = Rect(5, 5, 8, 8)
    /\ ipc = "dtm"

\* the first position of the list at which the bands up to it share no area
FirstEmpty(es) ==
    { b \in DOMAIN es :
        /\ ~Overlapping([c \in 1..b |-> es[c]])
        /\ \A a \in 1..(b - 1) : Overlapping([c \in 1..a |-> es[c]]) }

\* C14: without a user rectangle, band extents of which some leading part
\* shares no area end the run in the empty-intersection error with no engine
\* call, whatever follows in the list.
C14_EmptyIntersection ==
    (ExtentDone /\ user_rect = None /\ FirstEmpty(inputs.band_exts) # {}) =>
        /\ ipc = "error"
        /\ ierror = EmptyIntersectionMsg
        /\ IsEmpty(common_extent)
        /\ calls = <<>> /\ names = <<>>

\* the run failed on band extents whose first two share no area while the
\* later ones overlap each other
C14_Witness ==
    /\ ipc = "error" /\ ierror = EmptyIntersectionMsg
    /\ user_rect = None
    /\ FirstEmpty(inputs.band_exts) = {2}
    /\ Overlapping([c \in 1..3 |-> inputs.band_exts[c + 2]])

(***************************************************************************)
(* Properties of the engine pipeline.                                      *)
(***************************************************************************)
\* C15: every rectangle handed to the engine, as the window of a clip or as
\* the target extent of the alignment, has ordered bounds and a positive area.
C15_ClipExtentNonEmpty ==
    \A c \in 1..Len(calls) :
        calls[c].extent # None =>
            /\ calls[c].extent.xmin <= calls[c].extent.xmax
            /\ calls[c].extent.ymin <= calls[c].extent.ymax
            /\ ~IsEmpty(calls[c].extent)

\* C16: a run that lacks a required layer, or an export without a valid
\* project CRS, ends in its error before any engine call and before any CSV
\* line; nothing is returned.
C16_ValidationFirst ==
    /\ (missing # {} /\ ipc # "start") =>
          /\ ipc = "error" /\ ierror = MissingMsg
          /\ calls = <<>> /\ names = <<>>
          /\ iresult = None
    /\ ((~ras_lyr \/ ~proj_crs) /\ pc \notin {"idle", "start"}) =>
          /\ pc = "error"
          /\ error = IF ~ras_lyr THEN "No se entrego raster de entrada."
                                 ELSE "El proyecto no tiene un SRC valido."
          /\ engineCalls = 0
          /\ csv = <<>>
          /\ result = None

\* an index run without its DTM layer has ended in the error
C16_Witness ==
    /\ missing = {"DTM"}
    /\ ipc = "error" /\ ierror = MissingMsg
    /\ calls = <<>>

\* the calls that raised
Failed == {c \in 1..Len(calls) : calls[c].st = "failed"}

\* C17: a call that fails is the last call of the run, issued once; the run is
\* in its error state with nothing returned; what the completed calls wrote
\* and the messages pushed so far stay as they are.
C17_FailureIsFatal ==
    /\ [](\A c \in Failed :
            /\ c = Len(calls)
            /\ ipc = "error" /\ ierror = EngineMsg
            /\ iresult = None
            /\ \A d \in 1..(c - 1) :
                  calls[d].st = "ok" /\ calls[d].output # calls[c].output)
    /\ [][ /\ Len(calls') >= Len(calls)
           /\ \A c \in Completed : calls'[c] = calls[c]
           /\ Len(iinfos') >= Len(iinfos)
           /\ SubSeq(iinfos', 1, Len(iinfos)) = iinfos
           /\ ipc = "error" => (ipc' = "error" /\ calls' = calls /\ iinfos' = iinfos) ]_vars

\* the alignment of the illumination failed after ten calls had completed
C17_Witness ==
    /\ ipc = "error" /\ ierror = EngineMsg
    /\ Len(calls) >= 11
    /\ calls[Len(calls)].st = "failed"
    /\ calls[Len(calls)].base = "illumination_aligned"
    /\ Cardinality(Completed) = Len(calls) - 1
    /\ Len(iinfos) >= 5

\* the files a caller supplies
Sources == {Source(l) : l \in Layers}

\* the stage of the pipeline a call belongs to, by the name of its output
Stage(base) ==
    IF base = "dtm_reproj" THEN 1
    ELSE IF base \in {ClipJobs[q][2] : q \in 1..Len(ClipJobs)} THEN 2
    ELSE IF base \in {"slope", "aspect"} THEN 3
    ELSE IF base = "illumination" THEN 4
    ELSE IF base = "illumination_aligned" THEN 5
    ELSE IF base \in {CorrJobs[q][2] : q \in 1..Len(CorrJobs)} THEN 6
    ELSE IF base = "ndvi" \/ base \in {IndexDefs[q][1] : q \in 1..Len(IndexDefs)} THEN 7
    ELSE 8

\* C18: at most one call is in flight; a call is issued only when all the
\* calls before it have completed; every input of a call is a source or the
\* output of a call completed before; the calls follow the order of the stages.
C18_StrictPipeline ==
    /\ Cardinality({c \in 1..Len(calls) : calls[c].st = "running"}) <= 1
    /\ \A c \in 2..Len(calls) : \A d \in 1..(c - 1) : calls[d].st = "ok"
    /\ \A c \in 1..Len(calls) : \A q \in 1..Len(calls[c].inputs) :
          \/ calls[c].inputs[q] \in Sources
          \/ \E d \in 1..(c - 1) :
                calls[d].st = "ok" /\ calls[d].output = calls[c].inputs[q]
    /\ \A c, d \in 1..Len(calls) :
          c < d => Stage(calls[c].base) <= Stage(calls[d].base)
    /\ \A c \in 1..Len(calls) :
          /\ calls[c].base = "dtm_clip" /\ calls[1].base = "dtm_reproj"
                => calls[c].inputs = <<calls[1].output>>
          /\ calls[c].base = "illumination"
                => {"slope", "aspect"} \subseteq {calls[d].base : d \in 1..(c - 1)}
          /\ Stage(calls[c].base) = 8
                => \A q \in 1..Len(IndexDefs) :
                      \E d \in 1..(c - 1) : calls[d].base = IndexDefs[q][1]

\* a run of the alteration algorithm that reprojected the DTM has returned
C18_Witness ==
    /\ ipc = "done"
    /\ algo = "alteration"
    /\ calls[1].base = "dtm_reproj"
    /\ Len(calls) = 26
    /\ Completed = 1..26

\* C19: no run writes a path that an earlier run into the same folder wrote.
C19_NeverSamePath ==
    /\ \A k \in 1..Len(names) : names[k] \notin earlier
    /\ engineCalls > 0 => ReprojPath \notin earlier
    /\ csv # <<>> => CsvPath \notin earlier

\* C20: the paths one run takes from _unique are pairwise distinct; no call
\* writes a source or a path written before, a path is read only after the
\* one call that writes it, and the returned paths are pairwise distinct.
C20_DistinctPaths ==
    /\ \A k, l \in 1..Len(names) : k # l => names[k] # names[l]
    /\ \A d \in 1..Len(calls) :
          /\ calls[d].output \notin Sources
          /\ \A c \in 1..(d - 1) : calls[c].output # calls[d].output
          /\ \A e \in 1..Len(calls) : \A q \in 1..Len(calls[e].inputs) :
                calls[e].inputs[q] = calls[d].output => d < e
    /\ iresult # None =>
          \A k, l \in 1..Len(iresult) : k # l => iresult[k][2] # iresult[l][2]

\* a run has returned in which the second passed between slope and aspect
C20_Witness ==
    /\ ipc = "done"
    /\ \E k \in 1..Len(names) : names[k] = "slope_20240101_000000.tif"
    /\ \E k \in 1..Len(names) : names[k] = "aspect_20240101_000001.tif"
    /\ Len(iresult) >= 8

=============================================================================
